---- MODULE Spec2Model ----
(***************************************************************************)
(* A model of scripts/resolve-conflicts-with-gemini.js: the run of main()  *)
(* over the list of conflicted paths, with the file system, the git        *)
(* commands and the Gemini service as the environment.                     *)
(*                                                                         *)
(* Text is a sequence of one-character strings, so that the regular        *)
(* expression, the substring splice and trim() work on characters and      *)
(* offsets as the JavaScript does.                                         *)
(***************************************************************************)
EXTENDS Integers, Sequences, FiniteSets, TLC

(***************************************************************************)
(* Bounds of the model.                                                    *)
(***************************************************************************)
\* longest list of conflicted paths of a run under Spec
MaxPaths == 2
\* most segments a file text is built from under SpecFile
MaxSegs == 3

(***************************************************************************)
(* Characters and text helpers.                                            *)
(***************************************************************************)
NL == "\n"

Rep(c, n) == [k \in 1..n |-> c]

\* t.substring(from0, to0) with 0-based offsets, to0 exclusive: either
\* offset is clamped to 0..t.length and the two are swapped when from0 > to0
Clamp(t, k) == IF k < 0 THEN 0 ELSE IF k > Len(t) THEN Len(t) ELSE k

Substring(t, from0, to0) ==
    LET a == Clamp(t, from0)
        b == Clamp(t, to0)
    IN IF a <= b THEN SubSeq(t, a + 1, b) ELSE SubSeq(t, b + 1, a)

\* the smallest 1-based index i >= from at which pat occurs in t, 0 if none
RECURSIVE FirstAt(_, _, _)
FirstAt(t, pat, from) ==
    IF from + Len(pat) - 1 > Len(t) THEN 0
    ELSE IF SubSeq(t, from, from + Len(pat) - 1) = pat THEN from
    ELSE FirstAt(t, pat, from + 1)

(***************************************************************************)
(* conflictRegex, line 141:                                                *)
(*  /<<<<<<<[^\n]*\n([\s\S]*?)\n=======\n([\s\S]*?)\n>>>>>>>[^\n]*/g       *)
(***************************************************************************)
MarkerLen == 7
OursMarker == Rep("<", MarkerLen)
Separator == Rep("=", MarkerLen)
TheirsMarker == Rep(">", MarkerLen)
SepPattern == <<NL>> \o Separator \o <<NL>>
TheirsPattern == <<NL>> \o TheirsMarker

\* The one way the regex can match with its first character at 1-based index
\* i.  "<<<<<<<[^\n]*\n" ends at the first newline j after the marker (the
\* greedy [^\n]* cannot cross it).  The lazy group 1 stops at the first
\* "\n=======\n" that starts after j, at q; the lazy group 2 at the first
\* "\n>>>>>>>" that starts after that separator, at r; a later q cannot
\* succeed where the first one finds no r.  The trailing greedy [^\n]* runs
\* to the end of the line.  The result is the match array: index (0-based),
\* [0], [1], [2]; NoMatch when the regex fails at i.
NoMatch == [index |-> -1, full |-> <<>>, ours |-> <<>>, theirs |-> <<>>]

MatchAt(t, i) ==
    IF i = 0 \/ i + MarkerLen - 1 > Len(t)
       \/ SubSeq(t, i, i + MarkerLen - 1) # OursMarker THEN NoMatch
    ELSE LET j == FirstAt(t, <<NL>>, i + MarkerLen) IN
      IF j = 0 THEN NoMatch
      ELSE LET q == FirstAt(t, SepPattern, j + 1) IN
        IF q = 0 THEN NoMatch
        ELSE LET r == FirstAt(t, TheirsPattern, q + Len(SepPattern)) IN
          IF r = 0 THEN NoMatch
          ELSE LET nl == FirstAt(t, <<NL>>, r + Len(TheirsPattern))
                   e  == IF nl = 0 THEN Len(t) ELSE nl - 1
               IN [index  |-> i - 1,
                   full   |-> SubSeq(t, i, e),
                   ours   |-> SubSeq(t, j + 1, q - 1),
                   theirs |-> SubSeq(t, q + Len(SepPattern), r - 1)]

\* the leftmost match whose first character is at 1-based index >= from
RECURSIVE NextMatch(_, _)
NextMatch(t, from) ==
    LET i == FirstAt(t, OursMarker, from) IN
    IF i = 0 THEN NoMatch
    ELSE IF MatchAt(t, i) # NoMatch THEN MatchAt(t, i)
    ELSE NextMatch(t, i + 1)

\* [...content.matchAll(conflictRegex)], line 142: the successive matches,
\* each search starting where the previous match ended
RECURSIVE MatchAllFrom(_, _)
MatchAllFrom(t, from) ==
    LET m == NextMatch(t, from) IN
    IF m = NoMatch THEN <<>>
    ELSE <<m>> \o MatchAllFrom(t, m.index + Len(m.full) + 1)

MatchAll(t) == MatchAllFrom(t, 1)

\* matches.reverse(), line 150
Reverse(s) == [k \in 1..Len(s) |-> s[Len(s) + 1 - k]]

(***************************************************************************)
(* String.prototype.trim(), line 126: strips white space and line          *)
(* terminators from both ends.                                             *)
(***************************************************************************)
IsSpace(c) == c \in {" ", NL, "\t", "\r"}

RECURSIVE TrimStart(_)
TrimStart(t) ==
    IF t # <<>> /\ IsSpace(Head(t)) THEN TrimStart(Tail(t)) ELSE t

RECURSIVE TrimEnd(_)
TrimEnd(t) ==
    IF t # <<>> /\ IsSpace(t[Len(t)]) THEN TrimEnd(SubSeq(t, 1, Len(t) - 1)) ELSE t

\* a reply spliced in as it came
Untrimmed(t) == t

Trim(t) == TrimEnd(TrimStart(t))

\* line 159: content.substring(0, match.index) + resolvedCode
\*           + content.substring(match.index + fullConflictBlock.length)
Splice(content, match, resolvedCode) ==
    Substring(content, 0, match.index) \o resolvedCode
      \o Substring(content, match.index + Len(match.full), Len(content))

(***************************************************************************)
(* Configuration, lines 24-27.                                             *)
(***************************************************************************)
\* one attempt more than the limit of line 27
FourAttempts == 3 + 1

MAX_RETRIES == 3

\* line 81: setTimeout(res, 1000 * (2 ** i)), in milliseconds
BASE_DELAY == 1000

DelayConstant(i) == BASE_DELAY

Delay(i) == BASE_DELAY * (2 ^ i)

(***************************************************************************)
(* The state of a run.                                                     *)
(***************************************************************************)
VARIABLES
    apiKey,               \* GEMINI_API_KEY is set (line 24)
    answers,              \* the texts the service may answer with in this run
    original,             \* the working tree when the run starts
    disk,                 \* the working tree: path -> [dir, text]
    conflictedFiles,      \* line 177
    unresolvedSubmodules, \* line 187
    idx,                  \* position of `file` in conflictedFiles (line 190)
    content,              \* line 139
    matches,              \* matches.reverse() (lines 142, 150)
    mi,                   \* position of `match` in the reversed matches
    attempt,              \* i of callGeminiAPI (line 60)
    inflight,             \* requests sent and not yet answered
    staged,               \* paths given to `git add`
    pc,                   \* where the run is
    exitCode,             \* -1 while the process runs, then its exit code
    log,                  \* what the run did to its collaborators, in order
    frame                 \* cgroup::switch_cgroup: its arguments, locals,
                          \* position, result and the system calls it made

run == <<apiKey, answers, original, disk, conflictedFiles, unresolvedSubmodules,
         idx, content, matches, mi, attempt, inflight, staged, pc, exitCode, log>>

vars == <<run, frame>>

\* what no step of the script changes: its configuration, the tree as it was,
\* and the native call of the manager, which is no part of the script
env == <<apiKey, answers, original, frame>>

Ev(op, path, region, n, tag) ==
    [op |-> op, path |-> path, region |-> region, n |-> n, tag |-> tag, text |-> <<>>]

\* the event of a 2xx response that holds a text, with that text
EvResp(path, region, n, body) ==
    [op |-> "resp", path |-> path, region |-> region, n |-> n, tag |-> "text",
     text |-> body]

\* the event of line 159, with the resolvedCode it splices in
EvSplice(path, region, resolvedCode) ==
    [op |-> "splice", path |-> path, region |-> region, n |-> 0, tag |-> "",
     text |-> resolvedCode]

Dir == [dir |-> TRUE, text |-> <<>>]
File(t) == [dir |-> FALSE, text |-> t]

\* the path the loop of line 190 is at
file == conflictedFiles[idx]

InitRun ==
    /\ disk = original
    /\ conflictedFiles = <<>>
    /\ unresolvedSubmodules = FALSE
    /\ idx = 0
    /\ content = <<>>
    /\ matches = <<>>
    /\ mi = 0
    /\ attempt = 0
    /\ inflight = 0
    /\ staged = {}
    /\ pc = "main"
    /\ exitCode = -1
    /\ log = <<>>

(***************************************************************************)
(* How the process ends.                                                   *)
(***************************************************************************)
\* process.exit(code), or the event loop running empty after main returns
Exit(code, events) ==
    /\ pc' = "exited"
    /\ exitCode' = code
    /\ log' = log \o events \o <<Ev("exit", 0, 0, code, "")>>

\* lines 208-211: whatever is thrown inside the try block is reported and the
\* process exits with 1; nothing after the throwing statement runs
CatchContinue(events, kind, n) ==
    /\ pc' = "loop"
    /\ idx' = idx + 1
    /\ log' = log \o events \o <<Ev("throw", file, mi, n, kind)>>
    /\ UNCHANGED exitCode

Catch(events, kind, n) ==
    /\ Exit(1, events \o <<Ev("throw", file, mi, n, kind)>>)
    /\ UNCHANGED idx

\* an exception no handler catches ends the process with exit code 1
Uncaught(events, kind) ==
    Exit(1, events \o <<Ev("throw", 0, 0, 0, kind)>>)

(***************************************************************************)
(* main(), lines 170-212.                                                  *)
(***************************************************************************)
\* main going on to the list whether or not the credential is set
MainSkipsKeyCheck ==
    /\ pc = "main"
    /\ pc' = "list"
    /\ UNCHANGED <<exitCode, log>>
    /\ UNCHANGED <<env, disk, conflictedFiles, unresolvedSubmodules, idx, content,
                   matches, mi, attempt, inflight, staged>>

\* lines 171-176
Main ==
    /\ pc = "main"
    /\ IF ~apiKey
         THEN Exit(1, <<>>)
         ELSE /\ pc' = "list"
              /\ UNCHANGED <<exitCode, log>>
    /\ UNCHANGED <<env, disk, conflictedFiles, unresolvedSubmodules, idx, content,
                   matches, mi, attempt, inflight, staged>>

\* an empty list of paths taken for a failure
ListConflictsEmptyFails ==
    /\ pc = "list"
    /\ conflictedFiles' = [k \in 1..Len(disk) |-> k]
    /\ IF Len(disk) = 0
         THEN /\ Exit(1, <<Ev("list", 0, 0, 0, "ok")>>)
              /\ UNCHANGED idx
         ELSE /\ pc' = "loop"
              /\ idx' = 1
              /\ log' = log \o <<Ev("list", 0, 0, Len(disk), "ok")>>
              /\ UNCHANGED exitCode
    /\ UNCHANGED <<env, disk, unresolvedSubmodules, content, matches, mi, attempt,
                   inflight, staged>>

\* lines 177-187: git diff --name-only --diff-filter=U names the unmerged paths
ListConflicts ==
    /\ pc = "list"
    /\ conflictedFiles' = [k \in 1..Len(disk) |-> k]
    /\ IF Len(disk) = 0
         THEN /\ Exit(0, <<Ev("list", 0, 0, 0, "ok")>>)
              /\ UNCHANGED idx
         ELSE /\ pc' = "loop"
              /\ idx' = 1
              /\ log' = log \o <<Ev("list", 0, 0, Len(disk), "ok")>>
              /\ UNCHANGED exitCode
    /\ UNCHANGED <<env, disk, unresolvedSubmodules, content, matches, mi, attempt,
                   inflight, staged>>

\* line 177 with runCommand throwing (lines 37-40): outside the try block, so
\* the promise of main() is rejected and nothing handles it
ListThrows ==
    /\ pc = "list"
    /\ Uncaught(<<Ev("list", 0, 0, 0, "error")>>, "command")
    /\ UNCHANGED <<env, disk, conflictedFiles, unresolvedSubmodules, idx, content,
                   matches, mi, attempt, inflight, staged>>

\* line 195: continue
ContinueBreaks(i) == Len(conflictedFiles) + 1

Continue(i) == i + 1

\* lines 190-196: the path is a directory
StatDir ==
    /\ pc = "loop"
    /\ idx <= Len(conflictedFiles)
    /\ disk[file].dir
    /\ unresolvedSubmodules' = TRUE
    /\ idx' = Continue(idx)
    /\ log' = log \o <<Ev("stat", file, 0, 0, "dir")>>
    /\ UNCHANGED <<env, disk, conflictedFiles, content, matches, mi, attempt,
                   inflight, staged, pc, exitCode>>

\* lines 190-192, 197: the path is not a directory
StatFile ==
    /\ pc = "loop"
    /\ idx <= Len(conflictedFiles)
    /\ ~disk[file].dir
    /\ pc' = "read"
    /\ log' = log \o <<Ev("stat", file, 0, 0, "file")>>
    /\ UNCHANGED <<env, disk, conflictedFiles, unresolvedSubmodules, idx, content,
                   matches, mi, attempt, inflight, staged, exitCode>>

\* line 191: fs.stat rejects
StatThrows ==
    /\ pc = "loop"
    /\ idx <= Len(conflictedFiles)
    /\ Catch(<<Ev("stat", file, 0, 0, "error")>>, "fs", 0)
    /\ UNCHANGED <<env, disk, conflictedFiles, unresolvedSubmodules, content,
                   matches, mi, attempt, inflight, staged>>

\* the exit code of a run whose loop ended, lines 202-207
FinalCodeZero(unresolved) == 0

FinalCode(unresolved) == IF unresolved THEN 1 ELSE 0

\* lines 200-207: the loop is over
LoopEnd ==
    /\ pc = "loop"
    /\ idx > Len(conflictedFiles)
    /\ Exit(FinalCode(unresolvedSubmodules), <<>>)
    /\ UNCHANGED <<env, disk, conflictedFiles, unresolvedSubmodules, idx, content,
                   matches, mi, attempt, inflight, staged>>

(***************************************************************************)
(* resolveConflictsInFile(), lines 137-164.                                *)
(***************************************************************************)
\* matches.reverse() left out: the matches in ascending order
Unreversed(s) == s

\* line 150: the order in which the loop takes the matches
LoopOrder(s) == Reverse(s)

\* lines 138-150: the file is read and scanned once; without a match the
\* function returns (line 146), and main goes on to line 199
ReadOk ==
    /\ pc = "read"
    /\ LET text  == disk[file].text
           found == LoopOrder(MatchAll(text))
       IN /\ content' = text
          /\ matches' = found
          /\ log' = log \o <<Ev("read", file, 0, Len(found), "ok")>>
          /\ IF Len(found) = 0
               THEN /\ pc' = "add"
                    /\ UNCHANGED <<mi, attempt>>
               ELSE /\ pc' = "send"
                    /\ mi' = 1
                    /\ attempt' = 0
    /\ UNCHANGED <<env, disk, conflictedFiles, unresolvedSubmodules, idx, inflight,
                   staged, exitCode>>

\* line 139: fs.readFile rejects
ReadThrows ==
    /\ pc = "read"
    /\ Catch(<<Ev("read", file, 0, 0, "error")>>, "fs", 0)
    /\ UNCHANGED <<env, disk, conflictedFiles, unresolvedSubmodules, content,
                   matches, mi, attempt, inflight, staged>>

\* an error swallowed inside the loop of line 150, the file written as it is
ResolutionSwallowed(events, kind, n) ==
    /\ pc' = "write"
    /\ log' = log \o events
    /\ UNCHANGED <<exitCode, idx>>

\* lines 155 and 197 have no handler: what getGeminiResolution throws leaves
\* the loop of line 150 and resolveConflictsInFile, and reaches line 208
ResolutionThrows(events, kind, n) == Catch(events, kind, n)

(***************************************************************************)
(* callGeminiAPI(), lines 49-84, and getGeminiResolution(), lines 93-131.  *)
(***************************************************************************)
\* the requests for all the regions left, sent without awaiting any of them
SendAll ==
    /\ pc = "send"
    /\ attempt < MAX_RETRIES
    /\ inflight' = inflight + (Len(matches) - mi + 1)
    /\ pc' = "await"
    /\ log' = log \o <<Ev("send", file, mi, attempt, "")>>
    /\ UNCHANGED <<env, disk, conflictedFiles, unresolvedSubmodules, idx, content,
                   matches, mi, attempt, staged, exitCode>>

\* lines 60-76: attempt i sends the request
Send ==
    /\ pc = "send"
    /\ attempt < MAX_RETRIES
    /\ inflight' = inflight + 1
    /\ pc' = "await"
    /\ log' = log \o <<Ev("send", file, mi, attempt, "")>>
    /\ UNCHANGED <<env, disk, conflictedFiles, unresolvedSubmodules, idx, content,
                   matches, mi, attempt, staged, exitCode>>

\* the buffer written through to the file after each splice
RespTextWritesThrough ==
    /\ pc = "await"
    /\ \E body \in answers :
         /\ content' = Splice(content, matches[mi], Trim(body))
         /\ disk' = [disk EXCEPT ![file] = File(content')]
         /\ log' = log \o <<EvResp(file, mi, attempt, body),
                            EvSplice(file, mi, Trim(body)),
                            Ev("write", file, 0, 0, "ok")>>
    /\ inflight' = inflight - 1
    /\ IF mi < Len(matches)
         THEN /\ mi' = mi + 1
              /\ attempt' = 0
              /\ pc' = "send"
         ELSE /\ pc' = "write"
              /\ UNCHANGED <<mi, attempt>>
    /\ UNCHANGED <<env, conflictedFiles, unresolvedSubmodules, idx, matches,
                   staged, exitCode>>

\* lines 67-68, 124-126, 155-160: a 2xx response whose JSON holds the text;
\* it is trimmed and spliced, and the loop goes to the next match or to the
\* write of line 162
RespText ==
    /\ pc = "await"
    /\ \E body \in answers :
         /\ content' = Splice(content, matches[mi], Trim(body))
         /\ log' = log \o <<EvResp(file, mi, attempt, body),
                            EvSplice(file, mi, Trim(body))>>
    /\ inflight' = inflight - 1
    /\ IF mi < Len(matches)
         THEN /\ mi' = mi + 1
              /\ attempt' = 0
              /\ pc' = "send"
         ELSE /\ pc' = "write"
              /\ UNCHANGED <<mi, attempt>>
    /\ UNCHANGED <<env, disk, conflictedFiles, unresolvedSubmodules, idx, matches,
                   staged, exitCode>>

\* the missing text taken for a failed attempt of the retry loop
RespNoTextRetried ==
    /\ pc = "await"
    /\ inflight' = inflight - 1
    /\ pc' = "backoff"
    /\ log' = log \o <<Ev("resp", file, mi, attempt, "notext"),
                       Ev("delay", file, mi, Delay(attempt), "")>>
    /\ UNCHANGED <<env, disk, conflictedFiles, unresolvedSubmodules, idx, content,
                   matches, mi, attempt, staged, exitCode>>

\* lines 67-68, 124-130: a 2xx response whose JSON does not hold a string at
\* candidates[0].content.parts[0].text; callGeminiAPI has returned, so the
\* Error of line 129 is thrown outside the retry loop
RespNoText ==
    /\ pc = "await"
    /\ inflight' = inflight - 1
    /\ ResolutionThrows(<<Ev("resp", file, mi, attempt, "notext")>>, "malformed", attempt)
    /\ UNCHANGED <<env, disk, conflictedFiles, unresolvedSubmodules, content,
                   matches, mi, attempt, staged>>

\* line 68: a 2xx response whose body is not JSON; JSON.parse throws inside
\* the 'end' listener, outside the promise and outside every try block
RespNotJson ==
    /\ pc = "await"
    /\ inflight' = inflight - 1
    /\ Uncaught(<<Ev("resp", file, mi, attempt, "notjson")>>, "json")
    /\ UNCHANGED <<env, disk, conflictedFiles, unresolvedSubmodules, idx, content,
                   matches, mi, attempt, staged>>

\* line 80 with the test off by one
IsLastAttemptLate(i) == i = MAX_RETRIES

\* line 80: i === MAX_RETRIES - 1
IsLastAttempt(i) == i = MAX_RETRIES - 1

\* lines 78-81: the catch block of attempt i
AttemptFailed(kind) ==
    /\ inflight' = inflight - 1
    /\ IF IsLastAttempt(attempt)
         THEN ResolutionThrows(<<Ev("resp", file, mi, attempt, "fail")>>, kind, attempt)
         ELSE /\ pc' = "backoff"
              /\ log' = log \o <<Ev("resp", file, mi, attempt, "fail"),
                                 Ev("delay", file, mi, Delay(attempt), "")>>
              /\ UNCHANGED <<exitCode, idx>>
    /\ UNCHANGED <<env, disk, conflictedFiles, unresolvedSubmodules, content,
                   matches, mi, attempt, staged>>

\* lines 69-71: a response whose status is not 2xx
RespStatus ==
    /\ pc = "await"
    /\ AttemptFailed("status")

\* line 74: the request emits 'error'
ReqError ==
    /\ pc = "await"
    /\ AttemptFailed("transport")

\* line 81 and the loop head of line 60: the timer fires, i++; were i to
\* reach MAX_RETRIES the loop would end and callGeminiAPI return undefined,
\* which line 126 cannot read
BackoffElapsed ==
    /\ pc = "backoff"
    /\ attempt' = attempt + 1
    /\ IF attempt + 1 < MAX_RETRIES
         THEN /\ pc' = "send"
              /\ UNCHANGED <<exitCode, idx, log>>
         ELSE ResolutionThrows(<<>>, "malformed", attempt + 1)
    /\ UNCHANGED <<env, disk, conflictedFiles, unresolvedSubmodules, content,
                   matches, mi, inflight, staged>>

(***************************************************************************)
(* The write-back of line 162 and the staging of line 199.                 *)
(***************************************************************************)
WriteOk ==
    /\ pc = "write"
    /\ disk' = [disk EXCEPT ![file] = File(content)]
    /\ pc' = "add"
    /\ log' = log \o <<Ev("write", file, 0, 0, "ok")>>
    /\ UNCHANGED <<env, conflictedFiles, unresolvedSubmodules, idx, content, matches,
                   mi, attempt, inflight, staged, exitCode>>

\* line 162: fs.writeFile rejects, before or after it truncated the file
WriteThrows ==
    /\ pc = "write"
    /\ disk' \in {disk, [disk EXCEPT ![file] = File(<<>>)]}
    /\ Catch(<<Ev("write", file, 0, 0, "error")>>, "fs", 0)
    /\ UNCHANGED <<env, conflictedFiles, unresolvedSubmodules, content, matches,
                   mi, attempt, inflight, staged>>

\* the staging of a file left for later: the loop goes on without git add
AddDeferred ==
    /\ pc = "add"
    /\ idx' = idx + 1
    /\ pc' = "loop"
    /\ UNCHANGED <<env, disk, conflictedFiles, unresolvedSubmodules, content,
                   matches, mi, attempt, inflight, exitCode, staged, log>>

\* line 199: runCommand(`git add ${file}`), whenever resolveConflictsInFile
\* returned
AddOk ==
    /\ pc = "add"
    /\ staged' = staged \cup {file}
    /\ idx' = idx + 1
    /\ pc' = "loop"
    /\ log' = log \o <<Ev("add", file, 0, 0, "ok")>>
    /\ UNCHANGED <<env, disk, conflictedFiles, unresolvedSubmodules, content,
                   matches, mi, attempt, inflight, exitCode>>

\* line 199 with runCommand throwing (lines 37-40)
AddThrows ==
    /\ pc = "add"
    /\ Catch(<<Ev("add", file, 0, 0, "error")>>, "command", 0)
    /\ UNCHANGED <<env, disk, conflictedFiles, unresolvedSubmodules, content,
                   matches, mi, attempt, inflight, staged>>

(***************************************************************************)
(* cgroup::switch_cgroup(cgroup, pid), manager/src/main/jni/cgroup.cpp,    *)
(* lines 7-27.  Texts are sequences of characters, as above; a char array  *)
(* holds the characters before its terminating NUL.                        *)
(***************************************************************************)
\* line 8: char path[1024], buf[8]
PathSize == 1024
BufSize == 8

DigitChar(d) == <<"0", "1", "2", "3", "4", "5", "6", "7", "8", "9">>[d + 1]

\* the decimal digits of n >= 0
RECURSIVE Digits(_)
Digits(n) == IF n < 10 THEN <<DigitChar(n)>>
             ELSE Digits(n \div 10) \o <<DigitChar(n % 10)>>

\* the conversion %d
FormatInt(n) == IF n < 0 THEN <<"-">> \o Digits(0 - n) ELSE Digits(n)

\* snprintf(dst, size, ...): at most size - 1 characters of the formatted
\* text are stored, then the NUL
Snprintf(size, text) ==
    IF Len(text) <= size - 1 THEN text ELSE SubSeq(text, 1, size - 1)

\* the texts "/uid_0/cgroup.procs" of line 10 and "/cgroup.procs" of line 13
Uid0Procs == <<"/", "u", "i", "d", "_", "0", "/", "c", "g", "r", "o", "u", "p", ".", "p", "r", "o", "c", "s">>
PlainProcs == <<"/", "c", "g", "r", "o", "u", "p", ".", "p", "r", "o", "c", "s">>

\* a system call as the function made it: access(2) and open(2) on a path,
\* write(2) of data to the file opened at path, close(2) of that file
Sys(call, name, data, ok) == [call |-> call, path |-> name, data |-> data, ok |-> ok]

\* no call of switch_cgroup is under way
NoFrame ==
    [pc |-> "none", cgroup |-> <<>>, pid |-> 0, path |-> <<>>, buf |-> <<>>,
     fd |-> -1, ret |-> "none", sys |-> <<>>]

\* the caller is about to call switch_cgroup(cgroup, pid)
Called(cgroup, pid) == [NoFrame EXCEPT !.pc = "entry", !.cgroup = cgroup, !.pid = pid]

\* return b: the frame is left with the result
Return(b, calls) ==
    [frame EXCEPT !.pc = "done", !.ret = IF b THEN "true" ELSE "false",
                  !.sys = frame.sys \o calls]

\* lines 8-10: the two snprintf calls
SwitchCgroup ==
    /\ frame.pc = "entry"
    /\ frame' = [frame EXCEPT
                   !.buf = Snprintf(BufSize, FormatInt(frame.pid) \o <<NL>>),
                   !.path = Snprintf(PathSize, frame.cgroup \o Uid0Procs),
                   !.pc = "access"]
    /\ UNCHANGED run

\* line 11: access(path, F_OK) returns 0
AccessOk ==
    /\ frame.pc = "access"
    /\ frame' = [frame EXCEPT !.pc = "open",
                   !.sys = frame.sys \o <<Sys("access", frame.path, <<>>, TRUE)>>]
    /\ UNCHANGED run

\* line 11: access(path, F_OK) fails
AccessFails ==
    /\ frame.pc = "access"
    /\ frame' = [frame EXCEPT !.pc = "access again",
                   !.sys = frame.sys \o <<Sys("access", frame.path, <<>>, FALSE)>>]
    /\ UNCHANGED run

\* line 12: the second access(path, F_OK) returns 0, the file having appeared
\* since line 11
AccessAgainOk ==
    /\ frame.pc = "access again"
    /\ frame' = [frame EXCEPT !.pc = "open",
                   !.sys = frame.sys \o <<Sys("access", frame.path, <<>>, TRUE)>>]
    /\ UNCHANGED run

\* the path of line 13 taken for the open of line 17
AccessAgainFallsBack ==
    /\ frame.pc = "access again"
    /\ frame' = [frame EXCEPT !.pc = "open",
                   !.path = Snprintf(PathSize, frame.cgroup \o PlainProcs),
                   !.sys = frame.sys \o <<Sys("access", frame.path, <<>>, FALSE)>>]
    /\ UNCHANGED run

\* lines 12-14: the second access fails too; path is overwritten with
\* "<cgroup>/cgroup.procs" and the function returns false
AccessAgainFails ==
    /\ frame.pc = "access again"
    /\ frame' = [Return(FALSE, <<Sys("access", frame.path, <<>>, FALSE)>>)
                   EXCEPT !.path = Snprintf(PathSize, frame.cgroup \o PlainProcs)]
    /\ UNCHANGED run

\* the descriptors open(2) may return to a process with 0, 1, 2 in use
Descriptors == {3, 4}

\* line 17: open(path, O_WRONLY) returns a descriptor
OpenOk ==
    /\ frame.pc = "open"
    /\ \E d \in Descriptors :
         frame' = [frame EXCEPT !.pc = "write", !.fd = d,
                     !.sys = frame.sys \o <<Sys("open", frame.path, <<>>, TRUE)>>]
    /\ UNCHANGED run

\* lines 17-19: open fails, fd < 0
OpenFails ==
    /\ frame.pc = "open"
    /\ frame' = [Return(FALSE, <<Sys("open", frame.path, <<>>, FALSE)>>)
                   EXCEPT !.fd = -1]
    /\ UNCHANGED run

\* lines 21, 25-26: write(fd, buf, strlen(buf)) does not return -1 (a cgroup
\* file takes the whole buffer or fails); close(fd); return true
WriteProcsOk ==
    /\ frame.pc = "write"
    /\ frame' = Return(TRUE, <<Sys("write", frame.path, frame.buf, TRUE),
                               Sys("close", frame.path, <<>>, TRUE)>>)
    /\ UNCHANGED run

\* lines 21-24: write returns -1; close(fd); return false
WriteProcsFails ==
    /\ frame.pc = "write"
    /\ frame' = Return(FALSE, <<Sys("write", frame.path, frame.buf, FALSE),
                                Sys("close", frame.path, <<>>, TRUE)>>)
    /\ UNCHANGED run

(***************************************************************************)
(* The inputs of the runs.                                                 *)
(***************************************************************************)
LabelH == <<" ", "H">>
LabelB == <<" ", "b">>

\* a conflict block as git writes it, without the newline that ends it
Block(ours, theirs) ==
    OursMarker \o LabelH \o <<NL>> \o ours \o <<NL>> \o Separator \o <<NL>>
      \o theirs \o <<NL>> \o TheirsMarker \o LabelB

TextPlain == <<"a", NL>>
TextOne == <<"a", NL>> \o Block(<<"f">>, <<"g">>) \o <<NL, "b", NL>>
TextTwo == Block(<<"f">>, <<"g">>) \o <<NL, "m", NL>> \o Block(<<"x">>, <<"y">>) \o <<NL>>

SpecEntries == {Dir, File(TextPlain), File(TextOne), File(TextTwo)}
SpecAnswers == {<<" ", "z", NL>>}

Init ==
    /\ apiKey \in BOOLEAN
    /\ answers = SpecAnswers
    /\ original \in UNION {[1..n -> SpecEntries] : n \in 0..MaxPaths}
    /\ InitRun
    /\ frame = NoFrame

Next ==
    \/ Main \/ ListConflicts \/ ListThrows
    \/ StatDir \/ StatFile \/ StatThrows \/ LoopEnd
    \/ ReadThrows \/ ReadOk
    \/ Send \/ RespText \/ RespNoText \/ RespNotJson \/ RespStatus \/ ReqError
    \/ BackoffElapsed
    \/ WriteOk \/ WriteThrows \/ AddOk \/ AddThrows

Spec == Init /\ [][Next]_vars

(***************************************************************************)
(* Runs over one file whose text is any concatenation of at most MaxSegs   *)
(* segments, with a service that always answers with a text: the           *)
(* specification for what the scan and the splices compute.                *)
(***************************************************************************)
SegOurs == OursMarker \o LabelH \o <<NL>>
SegSep == Separator \o <<NL>>
SegTheirs == TheirsMarker \o LabelB \o <<NL>>
SegLine == <<"a", NL>>
SegBlock == Block(<<"f">>, <<"g">>) \o <<NL>>
SegMid == <<"c", " ">> \o OursMarker \o <<NL>>
SegEnd == TheirsMarker

Segments == {SegOurs, SegSep, SegTheirs, SegLine, SegBlock, SegMid, SegEnd}

RECURSIVE Concat(_)
Concat(ss) == IF ss = <<>> THEN <<>> ELSE Head(ss) \o Concat(Tail(ss))

FileTexts == {Concat(ss) : ss \in UNION {[1..n -> Segments] : n \in 0..MaxSegs}}

FileAnswers ==
    { <<" ", "z", NL>>,
      <<"<", "<", "<">>,
      <<"y", NL>> \o Separator \o <<NL, "z", NL>> \o TheirsMarker,
      Block(<<"p">>, <<"q">>) }

InitFile ==
    /\ apiKey = TRUE
    /\ answers = FileAnswers
    /\ original \in {<<File(t)>> : t \in FileTexts}
    /\ InitRun
    /\ frame = NoFrame

NextFile ==
    \/ Main \/ ListConflicts \/ StatFile \/ LoopEnd
    \/ ReadOk \/ Send \/ RespText \/ WriteOk \/ AddOk

SpecFile == InitFile /\ [][NextFile]_vars

(***************************************************************************)
(* One call of switch_cgroup: the cgroup roots are those of an Android     *)
(* device, the pids run up to the kernel's PID_MAX_LIMIT; no script runs.  *)
(***************************************************************************)
CgroupRoots == {<<"/", "a", "c", "c", "t">>,
                <<"/", "d", "e", "v", "/", "c", "g", "2", "_", "b", "p", "f">>,
                <<"/", "s", "y", "s", "/", "f", "s", "/", "c", "g", "r", "o", "u", "p">>}
Pids == {1, 4321, 32768, 4194304}

InitCgroup ==
    /\ apiKey = FALSE
    /\ answers = {}
    /\ original = <<>>
    /\ InitRun
    /\ frame \in {Called(c, p) : c \in CgroupRoots, p \in Pids}

NextCgroup ==
    \/ SwitchCgroup
    \/ AccessOk \/ AccessFails \/ AccessAgainOk \/ AccessAgainFails
    \/ OpenOk \/ OpenFails
    \/ WriteProcsOk \/ WriteProcsFails

SpecCgroup == InitCgroup /\ [][NextCgroup]_vars

(***************************************************************************)
(* What the claims speak of, read off the log.                             *)
(***************************************************************************)
LogIdx == 1..Len(log)

\* the conflict regions of a path's text as the run found it
RegionsOf(p) == MatchAll(original[p].text)

\* the resolver outcome of a region is a failure: the text is missing, the
\* body is no JSON, or the third attempt failed
RegionFailed(k) ==
    /\ log[k].op = "resp"
    /\ \/ log[k].tag \in {"notext", "notjson"}
       \/ log[k].tag = "fail" /\ log[k].n = 2

\* a collaborator or the resolver failed on a path of the list
PathFailed(k) ==
    \/ log[k].op \in {"stat", "read", "write", "add"} /\ log[k].tag = "error"
    \/ RegionFailed(k)

\* the events of the resolver call for one region of one path
CallEvents(p, r) ==
    SelectSeq(log, LAMBDA e : e.path = p /\ e.region = r
                              /\ e.op \in {"send", "resp", "delay"})

Listed == \E k \in LogIdx : log[k].op = "list" /\ log[k].tag = "ok"

----------------------------------------------------------------------------
\* C1 (as stated): a plain file whose text holds no conflict region is never
\* written back and never given to `git add`.
C1_NoWriteNoStageWithoutRegions ==
    \A k \in LogIdx :
        log[k].op \in {"write", "add"} => RegionsOf(log[k].path) # <<>>

\* C2: when the resolver outcome of a region is a failure, no further
\* request is sent for the file, the file on disk keeps its original text
\* and the path is never staged.
C2_RegionFailureLeavesFileUntouched ==
    \A k \in LogIdx :
        RegionFailed(k) =>
            /\ \A j \in LogIdx : j > k => log[j].op # "send"
            /\ \A j \in LogIdx :
                 log[j].path = log[k].path => log[j].op \notin {"write", "add"}
            /\ disk[log[k].path] = original[log[k].path]
            /\ log[k].path \notin staged

\* the second region of a file fails after the first was spliced in memory
C2_Witness ==
    /\ pc = "exited"
    /\ \E k \in LogIdx :
         /\ RegionFailed(k)
         /\ log[k].region = 2
         /\ content # original[log[k].path].text
         /\ disk[log[k].path].text = original[log[k].path].text

\* C3: once a path fails, nothing more is done to any path: the only events
\* after the failure are its report and the exit with code 1.
C3_FailureAbortsRun ==
    \A k \in LogIdx :
        PathFailed(k) =>
            /\ pc = "exited"
            /\ exitCode = 1
            /\ \A j \in LogIdx : j > k => log[j].op \in {"throw", "exit"}
            /\ \A j \in LogIdx : log[j].op # "list" => log[j].path <= log[k].path

\* the first of several paths fails
C3_Witness ==
    /\ pc = "exited"
    /\ Len(conflictedFiles) >= 2
    /\ \E k \in LogIdx : RegionFailed(k) /\ log[k].path = 1

\* C4: a finished run has exit code 0 exactly when the credential is
\* present, the list holds no directory and every file path of the list went
\* through resolution and staging without a failure; otherwise it is 1.
AllFilesResolved ==
    /\ Listed
    /\ \A k \in LogIdx : ~PathFailed(k)
    /\ \A p \in 1..Len(conflictedFiles) : ~original[p].dir => p \in staged

C4_ExitCode ==
    pc = "exited" =>
        /\ exitCode \in {0, 1}
        /\ exitCode = 0 <=>
             /\ apiKey
             /\ \A p \in 1..Len(conflictedFiles) : ~original[p].dir
             /\ AllFilesResolved

\* a run that resolved and wrote a file ends with 0
C4_Witness ==
    /\ pc = "exited"
    /\ exitCode = 0
    /\ \E k \in LogIdx : log[k].op = "write"

\* C5: a directory is never read, sent, written or staged, and after it the
\* loop goes on with the next path; a run without a failure stages every
\* plain file of the list, whatever directories the list holds.
C5_SubmoduleSkippedNotFatal ==
    /\ \A k \in LogIdx :
         log[k].op \in {"read", "send", "resp", "delay", "splice", "write", "add"}
            => ~original[log[k].path].dir
    /\ \A p \in staged : ~original[p].dir
    /\ \A k \in LogIdx :
         log[k].op = "stat" /\ log[k].tag = "dir" =>
            IF k = Len(log)
              THEN pc = "loop" /\ idx = log[k].path + 1
              ELSE IF log[k].path < Len(conflictedFiles)
                THEN log[k + 1].op = "stat" /\ log[k + 1].path = log[k].path + 1
                ELSE log[k + 1].op = "exit"
    /\ (pc = "exited" /\ Listed /\ \A k \in LogIdx : ~PathFailed(k)) =>
         \A p \in 1..Len(conflictedFiles) : ~original[p].dir => p \in staged

\* the list is a directory and then a file with a region, which is staged
C5_Witness ==
    /\ pc = "exited"
    /\ Len(conflictedFiles) >= 2
    /\ original[1].dir
    /\ 2 \in staged
    /\ RegionsOf(2) # <<>>
    /\ exitCode = 1

\* what a resolver call did, as <<op, n, tag>> triples in order
CallShape(p, r) ==
    [j \in 1..Len(CallEvents(p, r)) |->
        <<CallEvents(p, r)[j].op, CallEvents(p, r)[j].n, CallEvents(p, r)[j].tag>>]

\* a failed attempts, each followed by its delay of 1000 * 2^i ms
FailedAttempts(a) ==
    [j \in 1..(3 * a) |->
        LET i == (j - 1) \div 3
            m == (j - 1) % 3
        IN CASE m = 0 -> <<"send", i, "">>
             [] m = 1 -> <<"resp", i, "fail">>
             [] m = 2 -> <<"delay", 1000 * (2 ^ i), "">>]

\* C6: a call whose first k attempts fail and whose attempt k+1 succeeds
\* (k < 3) made exactly k+1 attempts and waited exactly k delays, of 1000 ms
\* then 2000 ms, each after its failed attempt and before the next one.
C6_RetryLaw ==
    \A k \in LogIdx :
        (log[k].op = "resp" /\ log[k].tag = "text") =>
            /\ log[k].n < 3
            /\ CallShape(log[k].path, log[k].region)
                 = FailedAttempts(log[k].n)
                     \o <<(<<"send", log[k].n, "">>), (<<"resp", log[k].n, "text">>)>>
            /\ \A j \in 4..Len(log) :
                 (log[j].op = "delay" /\ log[j - 3].op = "delay"
                    /\ log[j - 3].path = log[j].path /\ log[j - 3].region = log[j].region)
                   => log[j].n > log[j - 3].n

\* two attempts failed and the third one succeeded
C6_Witness ==
    \E k \in LogIdx : log[k].op = "resp" /\ log[k].tag = "text" /\ log[k].n = 2

\* C7: no call makes a fourth attempt; when the third attempt fails the call
\* has made exactly three attempts and waited twice, no delay follows, and
\* the error of that third attempt is what main reports before exiting.
C7_RetriesExhausted ==
    /\ \A k \in LogIdx : log[k].op = "send" => log[k].n < 3
    /\ \A k \in LogIdx : log[k].op = "delay" => log[k].n \in {1000, 2000}
    /\ \A k \in LogIdx :
         (log[k].op = "resp" /\ log[k].tag = "fail" /\ log[k].n = 2) =>
            /\ CallShape(log[k].path, log[k].region)
                 = FailedAttempts(2) \o <<(<<"send", 2, "">>), (<<"resp", 2, "fail">>)>>
            /\ Len(log) = k + 2
            /\ log[k + 1].op = "throw"
            /\ log[k + 1].tag \in {"status", "transport"}
            /\ log[k + 1].n = 2
            /\ log[k + 2].op = "exit"
    /\ \A k \in LogIdx :
         (log[k].op = "throw" /\ log[k].tag \in {"status", "transport"}) =>
            /\ log[k].n = 2
            /\ log[k - 1].op = "resp" /\ log[k - 1].tag = "fail" /\ log[k - 1].n = 2

\* all three attempts of a call failed, the last one on the transport
C7_Witness ==
    /\ pc = "exited"
    /\ \E k \in LogIdx : log[k].op = "throw" /\ log[k].tag = "transport" /\ log[k].n = 2

\* C8: a 2xx response without the text field ends the call at once: the
\* error is reported and the process exits, with no delay and no further
\* attempt, so the call made as many attempts as it had made when the
\* response came.
C8_MalformedNotRetried ==
    \A k \in LogIdx :
        (log[k].op = "resp" /\ log[k].tag = "notext") =>
            /\ Len(log) = k + 2
            /\ log[k + 1].op = "throw" /\ log[k + 1].tag = "malformed"
            /\ log[k + 2].op = "exit"
            /\ pc = "exited"
            /\ Len(SelectSeq(CallEvents(log[k].path, log[k].region),
                             LAMBDA e : e.op = "send")) = log[k].n + 1
            /\ Len(SelectSeq(CallEvents(log[k].path, log[k].region),
                             LAMBDA e : e.op = "delay")) = log[k].n

\* the second attempt of a call is answered without the text field
C8_Witness ==
    /\ pc = "exited"
    /\ \E k \in LogIdx : log[k].op = "resp" /\ log[k].tag = "notext" /\ log[k].n = 1

----------------------------------------------------------------------------
(***************************************************************************)
(* The reference the splice loop is compared with: resolve the last region *)
(* of the buffer, scan the result afresh, and repeat with the next reply   *)
(* until the buffer holds no region.  done is FALSE when regions remain    *)
(* after the last reply.                                                   *)
(***************************************************************************)
RECURSIVE Oracle(_, _)
Oracle(buf, replies) ==
    LET m == MatchAll(buf) IN
    IF m = <<>> THEN [done |-> TRUE, text |-> buf]
    ELSE IF replies = <<>> THEN [done |-> FALSE, text |-> buf]
    ELSE Oracle(Splice(buf, m[Len(m)], Head(replies)), Tail(replies))

\* the resolved texts spliced into a path's buffer, in the order of the calls
RepliesOf(p) ==
    LET ev == SelectSeq(log, LAMBDA e : e.op = "splice" /\ e.path = p)
    IN [j \in 1..Len(ev) |-> ev[j].text]

HasOursMarker(t) == FirstAt(t, OursMarker, 1) # 0

WrittenAsOracle(p) ==
    /\ Oracle(original[p].text, RepliesOf(p)).done
    /\ Oracle(original[p].text, RepliesOf(p)).text = disk[p].text

\* C9 (as stated): whatever the replies, the text written back is the text
\* the re-scanning oracle ends with.
C9_SpliceEqualsOracle ==
    \A k \in LogIdx :
        (log[k].op = "write" /\ log[k].tag = "ok") => WrittenAsOracle(log[k].path)

\* C9 (amended): when no reply holds the ours marker "<<<<<<<", the text
\* written back is the text the re-scanning oracle ends with.
C9_SpliceEqualsOracleMarkerFree ==
    \A k \in LogIdx :
        (/\ log[k].op = "write" /\ log[k].tag = "ok"
         /\ \A j \in 1..Len(RepliesOf(log[k].path)) :
              ~HasOursMarker(RepliesOf(log[k].path)[j]))
          => WrittenAsOracle(log[k].path)

\* a file with two regions is written after two different replies, one of
\* them holding a separator and a theirs marker
C9_Witness ==
    \E k \in LogIdx :
        /\ log[k].op = "write" /\ log[k].tag = "ok"
        /\ Len(RepliesOf(log[k].path)) >= 2
        /\ \A j \in 1..Len(RepliesOf(log[k].path)) :
             ~HasOursMarker(RepliesOf(log[k].path)[j])
        /\ \E j \in 1..Len(RepliesOf(log[k].path)) :
             FirstAt(RepliesOf(log[k].path)[j], TheirsMarker, 1) # 0
        /\ RepliesOf(log[k].path)[1] # RepliesOf(log[k].path)[2]

----------------------------------------------------------------------------
(***************************************************************************)
(* The conflict-block grammar the parser is compared with, line by line.   *)
(***************************************************************************)
\* the lines of t as [start |-> 0-based offset, text |-> the line without
\* its newline], the part after the last newline being the last line
RECURSIVE LinesFrom(_, _)
LinesFrom(t, from0) ==
    LET nl == FirstAt(t, <<NL>>, from0 + 1) IN
    IF nl = 0 THEN <<[start |-> from0, text |-> SubSeq(t, from0 + 1, Len(t))]>>
    ELSE <<[start |-> from0, text |-> SubSeq(t, from0 + 1, nl - 1)]>>
           \o LinesFrom(t, nl)

LinesOf(t) == LinesFrom(t, 0)

StartsWith(l, pat) == Len(l) >= Len(pat) /\ SubSeq(l, 1, Len(pat)) = pat

\* ours: starts with "<<<<<<<"; sep: is "======="; theirs: starts with
\* ">>>>>>>"; plain: holds none of the three; other: anything else
LineKind(l) ==
    IF StartsWith(l, OursMarker) THEN "ours"
    ELSE IF l = Separator THEN "sep"
    ELSE IF StartsWith(l, TheirsMarker) THEN "theirs"
    ELSE IF FirstAt(l, OursMarker, 1) = 0 /\ FirstAt(l, Separator, 1) = 0
            /\ FirstAt(l, TheirsMarker, 1) = 0 THEN "plain"
    ELSE "other"

\* the state of the line scanner after the first n lines: "seek" outside a
\* block, "ours" and "theirs" inside one, "bad" once a line is out of place
RECURSIVE ScanState(_, _)
ScanState(ls, n) ==
    IF n = 0 THEN "seek"
    ELSE LET st == ScanState(ls, n - 1)
             k  == LineKind(ls[n].text)
         IN CASE st = "seek"   /\ k = "plain"  -> "seek"
              [] st = "seek"   /\ k = "ours"   -> "ours"
              [] st = "ours"   /\ k = "plain"  -> "ours"
              [] st = "ours"   /\ k = "sep"    -> "theirs"
              [] st = "theirs" /\ k = "plain"  -> "theirs"
              [] st = "theirs" /\ k = "theirs" -> "seek"
              [] OTHER -> "bad"

\* t is plain lines and well-formed, non-overlapping conflict blocks
WellFormed(t) == ScanState(LinesOf(t), Len(LinesOf(t))) = "seek"

\* the region of the block whose ours-marker line is line a of a well-formed
\* text: the span from that line through the theirs-marker line, and the
\* lines strictly between the markers
BlockAt(t, ls, a) ==
    LET s == CHOOSE n \in (a + 1)..Len(ls) :
                 /\ LineKind(ls[n].text) = "sep"
                 /\ \A m \in (a + 1)..(n - 1) : LineKind(ls[m].text) # "sep"
        e == CHOOSE n \in (s + 1)..Len(ls) :
                 /\ LineKind(ls[n].text) = "theirs"
                 /\ \A m \in (s + 1)..(n - 1) : LineKind(ls[m].text) # "theirs"
    IN [index  |-> ls[a].start,
        full   |-> SubSeq(t, ls[a].start + 1, ls[e].start + Len(ls[e].text)),
        ours   |-> IF s = a + 1 THEN <<>>
                   ELSE SubSeq(t, ls[a + 1].start + 1, ls[s].start - 1),
        theirs |-> IF e = s + 1 THEN <<>>
                   ELSE SubSeq(t, ls[s + 1].start + 1, ls[e].start - 1)]

RECURSIVE BlocksFrom(_, _, _)
BlocksFrom(t, ls, n) ==
    IF n > Len(ls) THEN <<>>
    ELSE IF LineKind(ls[n].text) = "ours"
      THEN <<BlockAt(t, ls, n)>> \o BlocksFrom(t, ls, n + 1)
      ELSE BlocksFrom(t, ls, n + 1)

\* the regions of a well-formed text, in ascending order
BlocksOf(t) == BlocksFrom(t, LinesOf(t), 1)

\* the run has scanned the file at hand
Scanned == pc \in {"send", "await", "backoff", "write", "add"}

\* C10 (as stated): for a text made of plain lines and N well-formed blocks,
\* each with zero or more ours lines and zero or more theirs lines, the
\* scan returns the N blocks in ascending order, each with its span from
\* the ours-marker line through the theirs-marker line and with the lines
\* between its markers as ours and theirs text.
C10_ParserFindsEveryBlock ==
    (Scanned /\ WellFormed(original[file].text))
        => Reverse(matches) = BlocksOf(original[file].text)

----------------------------------------------------------------------------
\* the line of t that holds the 0-based offset k
LineAt(t, k) ==
    CHOOSE n \in 1..Len(LinesOf(t)) :
        /\ LinesOf(t)[n].start <= k
        /\ k <= LinesOf(t)[n].start + Len(LinesOf(t)[n].text)

\* C11 (as stated): every region the scan returns starts at the start of a
\* line that starts with "<<<<<<<", and is that line paired with the nearest
\* following line that is exactly "=======" and then with the nearest
\* following line that starts with ">>>>>>>": its span and its ours and
\* theirs texts are those of that block, so that no marker in the middle of
\* a line begins, separates or ends a region.
C11_MarkersOnlyAtLineStart ==
    Scanned =>
        \A j \in 1..Len(matches) :
            LET t  == original[file].text
                ls == LinesOf(t)
                a  == LineAt(t, matches[j].index)
            IN /\ ls[a].start = matches[j].index
               /\ StartsWith(ls[a].text, OursMarker)
               /\ \E s \in (a + 1)..Len(ls) : LineKind(ls[s].text) = "sep"
               /\ matches[j] = BlockAt(t, ls, a)

----------------------------------------------------------------------------
\* the reply without its leading and trailing whitespace, by its definition:
\* the one stretch of raw between two runs of whitespace that neither starts
\* nor ends with a whitespace character
Trimmed(raw) ==
    LET cut == CHOOSE c \in (0..Len(raw)) \X (0..Len(raw)) :
                   /\ c[1] <= c[2]
                   /\ \A i \in 1..c[1] : IsSpace(raw[i])
                   /\ \A i \in (c[2] + 1)..Len(raw) : IsSpace(raw[i])
                   /\ c[1] < c[2] => /\ ~IsSpace(raw[c[1] + 1])
                                     /\ ~IsSpace(raw[c[2]])
    IN SubSeq(raw, cut[1] + 1, cut[2])

\* the raw reply text the resolver gave for region r of path p
BodyOf(p, r) ==
    LET k == CHOOSE k \in LogIdx : /\ log[k].op = "resp" /\ log[k].tag = "text"
                                   /\ log[k].path = p /\ log[k].region = r
    IN log[k].text

\* t from offset pos on, with the regions regs[j], regs[j+1], ... (ascending
\* order of offset) replaced by reps[j], reps[j+1], ... and all else copied
RECURSIVE Replaced(_, _, _, _, _)
Replaced(t, regs, reps, j, pos) ==
    IF j > Len(regs) THEN SubSeq(t, pos + 1, Len(t))
    ELSE SubSeq(t, pos + 1, regs[j].index) \o reps[j]
         \o Replaced(t, regs, reps, j + 1, regs[j].index + Len(regs[j].full))

\* the text of path p with every region's span replaced by its trimmed reply;
\* the call for the j-th region in offset order is the (n - j + 1)-th call
Expected(p) ==
    LET regs == RegionsOf(p)
        n    == Len(regs)
        reps == [j \in 1..n |-> Trimmed(BodyOf(p, n - j + 1))]
    IN Replaced(original[p].text, regs, reps, 1, 0)

\* C12: when every region of a file resolves, the text written to the file is
\* the original text with each region's full span, from the first character
\* of its ours marker line to the last character of its theirs marker line,
\* replaced by the resolver's reply without its leading and trailing
\* whitespace, and with every character outside the spans unchanged and in
\* order.
C12_WrittenIsOriginalWithSpansReplaced ==
    \A k \in LogIdx :
        (log[k].op = "write" /\ log[k].tag = "ok")
            => disk[log[k].path].text = Expected(log[k].path)

\* a file with two regions and text outside them is written after a reply
\* that had whitespace to trim
C12_Witness ==
    \E k \in LogIdx :
        LET p == log[k].path IN
        /\ log[k].op = "write" /\ log[k].tag = "ok"
        /\ Len(RegionsOf(p)) = 2
        /\ RegionsOf(p)[1].index > 0
        /\ \E r \in 1..2 : Trimmed(BodyOf(p, r)) # BodyOf(p, r)
        /\ disk[p].text # original[p].text

----------------------------------------------------------------------------
\* the positions of the log where op was called on path p
Calls(op, p) == {k \in LogIdx : log[k].op = op /\ log[k].path = p}

\* C13: each file path is read exactly once, before any resolver call for
\* it, and is written back at most once: exactly once, after the resolution
\* of its last region, when it has at least one region and all of them
\* resolve, and never otherwise; no write of a file lies between two resolver
\* calls of that file.
C13_ReadOnceWriteAtMostOnce ==
    \A p \in 1..Len(original) :
        /\ Cardinality(Calls("read", p)) <= 1
        /\ \A k \in LogIdx :
             (log[k].path = p /\ log[k].op \in {"send", "resp", "splice", "write", "add"})
                => \E r \in Calls("read", p) : r < k
        /\ Cardinality(Calls("write", p)) <= 1
        /\ \A w \in Calls("write", p) :
             /\ Len(RegionsOf(p)) >= 1
             /\ Cardinality({k \in Calls("splice", p) : k < w}) = Len(RegionsOf(p))
             /\ \A k \in Calls("send", p) : k < w
        /\ (/\ Len(RegionsOf(p)) >= 1
            /\ Cardinality(Calls("splice", p)) = Len(RegionsOf(p))
            /\ ~(pc = "write" /\ file = p))
             => Cardinality(Calls("write", p)) = 1

\* the run ended after a file with two regions was read once, resolved and
\* written once
C13_Witness ==
    /\ pc = "exited"
    /\ \E p \in 1..Len(original) :
         /\ Len(RegionsOf(p)) = 2
         /\ Cardinality(Calls("send", p)) >= 2
         /\ Cardinality(Calls("read", p)) = 1
         /\ Cardinality(Calls("write", p)) = 1

----------------------------------------------------------------------------
\* the number of events of kind op among the first k events of the log
Before(op, k) == Cardinality({j \in 1..k : log[j].op = op})

\* C14: at no time are two resolver requests in flight. A request is in
\* flight exactly while the run awaits its outcome; when a request is sent
\* every earlier request has had its outcome; a retry is sent only after the
\* failure of the previous attempt of the same region and its backoff; the
\* first request of a later region is sent only after the splice of the
\* region before it.
C14_OneRequestAtATime ==
    /\ inflight \in {0, 1}
    /\ inflight = 1 <=> pc = "await"
    /\ pc = "backoff" => log[Len(log)].op = "delay"
    /\ \A k \in LogIdx :
         log[k].op = "send" =>
            /\ Before("send", k - 1) = Before("resp", k - 1)
            /\ k > 1
            /\ log[k - 1].path = log[k].path
            /\ IF log[k].n > 0
                 THEN /\ log[k - 1].op = "delay"
                      /\ log[k - 1].region = log[k].region
                      /\ log[k - 2].op = "resp" /\ log[k - 2].tag = "fail"
                      /\ log[k - 2].n = log[k].n - 1
               ELSE IF log[k].region > 1
                 THEN /\ log[k - 1].op = "splice"
                      /\ log[k - 1].region = log[k].region - 1
               ELSE log[k - 1].op = "read"

\* a request is in flight that is a retry for the second region of a file
C14_Witness ==
    /\ inflight = 1
    /\ log[Len(log)].op = "send"
    /\ log[Len(log)].n > 0
    /\ log[Len(log)].region = 2

----------------------------------------------------------------------------
\* C15: when the resolver credential is absent the run does not ask for the
\* conflicted paths: nothing is listed, classified, read, sent to the
\* resolver, written or staged, and the run exits with a non-zero code.
C15_NoCredentialNoWork ==
    ~apiKey =>
        /\ pc \in {"main", "exited"}
        /\ conflictedFiles = <<>>
        /\ disk = original
        /\ staged = {}
        /\ inflight = 0
        /\ \A k \in LogIdx : log[k].op = "exit"
        /\ pc = "exited" => /\ exitCode # 0
                            /\ Len(log) = 1

\* a run without credential has ended although two paths are in conflict,
\* one of them a file with regions
C15_Witness ==
    /\ ~apiKey
    /\ pc = "exited"
    /\ Len(original) >= 2
    /\ \E p \in 1..Len(original) : ~original[p].dir /\ RegionsOf(p) # <<>>

\* C16: when the list of conflicted paths is empty the run is a no-op that
\* succeeds: nothing is classified, read, sent to the resolver, written or
\* staged, and the run ends with exit code 0.
C16_EmptyListIsNoOp ==
    (Listed /\ conflictedFiles = <<>>) =>
        /\ pc = "exited"
        /\ exitCode = 0
        /\ log = <<Ev("list", 0, 0, 0, "ok"), Ev("exit", 0, 0, 0, "")>>
        /\ disk = original
        /\ staged = {}
        /\ inflight = 0

\* a run with the credential has listed no path and has ended
C16_Witness ==
    /\ apiKey
    /\ Listed
    /\ conflictedFiles = <<>>
    /\ pc = "exited"

----------------------------------------------------------------------------
\* the buffer holds the original block of region m at the offset of m
HoldsBlock(buf, m) ==
    /\ m.index + Len(m.full) <= Len(buf)
    /\ SubSeq(buf, m.index + 1, m.index + Len(m.full)) = m.full

\* C17: the regions of a file are processed in strictly descending order of
\* start offset, and whenever a region is about to be spliced the current
\* buffer still holds, from the region's start offset on, exactly the
\* region's original block: no earlier splice has moved or changed it.
C17_OffsetsStayValid ==
    pc \in {"send", "await", "backoff"} =>
        /\ \A j \in 1..(Len(matches) - 1) : matches[j].index > matches[j + 1].index
        /\ \A j \in 1..Len(matches) : HoldsBlock(original[file].text, matches[j])
        /\ \A j \in mi..Len(matches) : HoldsBlock(content, matches[j])

\* the second region of a file is about to be resolved after a splice that
\* changed the length of the buffer
C17_Witness ==
    /\ pc = "await"
    /\ mi = 2
    /\ Len(content) # Len(original[file].text)

----------------------------------------------------------------------------
(***************************************************************************)
(* The run under the assumption that every step that can be taken is       *)
(* taken in the end: every request gets an outcome (lines 62-76 settle the *)
(* promise on 'end' or 'error'), every timer of line 81 fires, and every   *)
(* awaited file or git operation returns or throws.                        *)
(***************************************************************************)
SpecFair == Init /\ [][Next]_vars /\ WF_vars(Next)

\* the number of regions found in the files read so far
RegionsFound ==
    LET RECURSIVE Sum(_)
        Sum(k) == IF k = 0 THEN 0
                  ELSE Sum(k - 1) + (IF log[k].op = "read" THEN log[k].n ELSE 0)
    IN Sum(Len(log))

\* C18: when every resolver attempt completes and every backoff delay
\* elapses, the run ends with an exit code, and at no time has it made more
\* than 3 resolver attempts per region found in the files it has processed.
C18_TerminatesWithinRetryBudget ==
    /\ <>(pc = "exited" /\ exitCode \in {0, 1})
    /\ [](Before("send", Len(log)) <= 3 * RegionsFound)

\* the run has ended after three attempts for each of the two regions of a
\* file: the budget is used in full
C18_Witness ==
    /\ pc = "exited"
    /\ RegionsFound = 2
    /\ Before("send", Len(log)) = 3 * RegionsFound

----------------------------------------------------------------------------
\* path i, a file with regions, has its resolved text on disk and is staged
Completed(i) ==
    /\ \E w \in Calls("write", i) : log[w].tag = "ok"
    /\ disk[i].text = Expected(i)
    /\ disk[i].text # original[i].text
    /\ i \in staged

\* C19: paths are handled in list order and nothing is rolled back. The
\* `git add` of the file at position i has returned before the file at any
\* later position is read; and once the run has failed on the path at
\* position k, every plain file before k that had regions has its resolved
\* text on disk and is staged, at the abort and ever after.  (The path at
\* position i of the list is the path i of the tree.)
C19_NoRollbackListOrder ==
    /\ \A r \in LogIdx :
         log[r].op = "read" =>
            \A i \in 1..(log[r].path - 1) :
                ~original[i].dir =>
                    \E a \in Calls("add", i) : a < r /\ log[a].tag = "ok"
    /\ \A k \in LogIdx :
         PathFailed(k) =>
            \A i \in 1..(log[k].path - 1) :
                (~original[i].dir /\ RegionsOf(i) # <<>>) => Completed(i)

\* the run has exited after a failure on the second path, a file with
\* regions, and the first path, a file with regions too, is completed
C19_Witness ==
    /\ pc = "exited"
    /\ exitCode = 1
    /\ \E k \in LogIdx : PathFailed(k) /\ log[k].path = 2
    /\ ~original[1].dir /\ RegionsOf(1) # <<>>
    /\ ~original[2].dir /\ RegionsOf(2) # <<>>
    /\ Completed(1)

----------------------------------------------------------------------------
\* the system calls of kind call that the function has made, as positions
SysCalls(call) == {k \in 1..Len(frame.sys) : frame.sys[k].call = call}

\* "<cgroup>/uid_0/cgroup.procs" and "<cgroup>/cgroup.procs"
Uid0Path == frame.cgroup \o Uid0Procs
PlainPath == frame.cgroup \o PlainProcs

\* the line that names the pid: its decimal digits and a newline, or the
\* digits alone when buf has no room for the newline
IsPidLine(data) ==
    \/ data = FormatInt(frame.pid) \o <<NL>>
    \/ data = FormatInt(frame.pid) /\ Len(data) = BufSize - 1

\* C20: switch_cgroup only ever opens and writes
\* "<cgroup>/uid_0/cgroup.procs"; when the access checks of that path fail it
\* returns false and has neither opened nor written anything, and no system
\* call is ever made on "<cgroup>/cgroup.procs"; it returns true only when
\* the open of the uid_0 path succeeded and the write of the pid line to it
\* succeeded; and once it has returned, every descriptor it opened has been
\* closed, exactly once.
C20_OnlyUid0ProcsIsOpened ==
    /\ \A k \in 1..Len(frame.sys) :
         /\ frame.sys[k].path = Uid0Path
         /\ frame.sys[k].path # PlainPath
    /\ (frame.pc = "done" /\ \A k \in SysCalls("access") : ~frame.sys[k].ok)
         => /\ frame.ret = "false"
            /\ SysCalls("open") = {} /\ SysCalls("write") = {}
    /\ frame.ret = "true"
         => \E o \in SysCalls("open"), w \in SysCalls("write") :
               /\ o < w
               /\ frame.sys[o].ok /\ frame.sys[w].ok
               /\ IsPidLine(frame.sys[w].data)
    /\ \A w \in SysCalls("write") : \E o \in SysCalls("open") : o < w /\ frame.sys[o].ok
    /\ frame.pc = "done"
         => /\ Cardinality(SysCalls("close"))
                 = Cardinality({o \in SysCalls("open") : frame.sys[o].ok})
            /\ Cardinality(SysCalls("close")) <= 1
            /\ \A c \in SysCalls("close") :
                  \E o \in SysCalls("open") : o < c /\ frame.sys[o].ok

\* the function has returned false after both access checks failed, with the
\* path of line 13 in its buffer and no file opened
C20_Witness ==
    /\ frame.pc = "done"
    /\ frame.ret = "false"
    /\ frame.path = PlainPath
    /\ Cardinality(SysCalls("access")) = 2
    /\ SysCalls("open") = {}

====
